---- MODULE Spec2Model ----
(***************************************************************************)
(* Model of the runner game of src/src/components/RunnerGame.tsx: the      *)
(* mutable simulation record stateRef.current, the animation-frame step    *)
(* `loop`, the key handler, resetGame, and the React state around them     *)
(* (gameState, score, highScore, balance, the settle guard).               *)
(*                                                                         *)
(* Units.  Every length, position and speed is kept in TENTHS of a pixel,  *)
(* so that GRAVITY = 1.2, the speed step 0.5 and the recovery step 0.5 are *)
(* integers; all of these values are multiples of 0.1 in the source and    *)
(* no comparison of the step is hit with equality on an inexact value, so  *)
(* the scaling is exact.  The score accumulator is a double that grows by  *)
(* 0.1 per tick; state.score holds the NUMBER of additions made, and       *)
(* ScoreFloor gives Math.floor of the double that many additions produce.  *)
(* A particle's life is kept in units of 0.05.                             *)
(***************************************************************************)
EXTENDS Integers, Sequences, FiniteSets, TLC

\* ---------------------------------------------------------------- bounds
\* Ticks executed in one session.
MaxFrames == 125
\* Sessions started (calls of resetGame) since the component mounted.
MaxSessions == 2
\* Ticks for which the spawn trial (Math.random() < 0.02) may go on failing
\* once the minimum gap to the last obstacle is met.
MaxSpawnDelay == 1

\* ------------------------------------------------- constants of the source
PLAYER_SIZE == 600
INITIAL_GAME_SPEED == 100
JUMP_FORCE == -200
GRAVITY == 12
MAX_ENEMY_DISTANCE == 3500
ENEMY_CATCH_DISTANCE == 300
ENEMY_RECOVERY_RATE == 10
PLAYER_GROUND_OFFSET == 1200
MIN_WITHDRAWAL_POINTS == 1000
\* resetGame's enemy distance (300 px)
RESET_ENEMY_DISTANCE == 3000
\* loop: frameCount % 600, gameSpeed += 0.5
DIFFICULTY_PERIOD == 600
SPEED_INCREMENT == 5
\* loop: spawnDistance, the 600 + random * 500 gap, the trap's size
spawnDistance == 12000
GAP_MIN == 6000
obstacleH == 450
obstacleW == 600
\* loop: obstacles.length > 20
OBSTACLE_CAP == 20
hitboxPadding == 100
\* createExplosion: 10 particles of life 1.0; loop: life -= 0.05
EXPLOSION_SIZE == 10
PARTICLE_LIFE == 20
PARTICLE_DECAY == 1
\* window.innerHeight, copied to canvas.height by resize()
CanvasHeight == 6000

\* ------------------------------------------------------------ input sets
\* Math.random() * 500 of the gap test, in tenths
GapRandoms == {0, 4990}
\* (Math.random() - 0.5) * 10 of createExplosion, in tenths
ParticleVels == {-50, 30}
\* values parseInt(localStorage.gameBalance) gave when the component mounted;
\* a session of at most MaxFrames ticks earns 11 or 12 points, which takes
\* this balance to 999 or to 1000, either side of the withdrawal threshold
StoredBalances == {988}

GameStates == {"START", "PLAYING", "GAME_OVER"}

VARIABLES
    gameState,       \* useState<GameState>
    score,           \* useState score (the integer pushed by setScore)
    highScore,       \* useState highScore
    balance,         \* useState balance
    withdrawSuccess, \* useState withdrawSuccess
    pointsAdded,     \* pointsAddedRef.current
    state,           \* stateRef.current
    rafPending,      \* loop callbacks queued by requestAnimationFrame
    rendered,        \* the gameState of the last committed render
    playRequested,   \* the step just taken called jumpSoundRef.current.play()
    sessions,        \* calls of resetGame since mount (bounds the exploration)
    storage,         \* localStorage: the items gameBalance, runner_session_pubkey
    mount,           \* RunnerGame's mount: its effects' progress, queued setBalance
    home,            \* Home's useState: loading, userPublicKey
    auth             \* Auth's useState: view, privateKeyInput, error, generatedAccount

vars == <<gameState, score, highScore, balance, withdrawSuccess, pointsAdded,
          state, rafPending, rendered, playRequested, sessions,
          storage, mount, home, auth>>

\* What the game's own handlers leave alone.
page == <<mount, home, auth>>

\* RunnerGame's own state.
game == <<gameState, score, highScore, balance, withdrawSuccess, pointsAdded,
          state, rafPending, rendered, playRequested, sessions>>

Max(a, b) == IF a >= b THEN a ELSE b

GroundY == CanvasHeight - PLAYER_GROUND_OFFSET

\* ------------------------------------------------------------------ texts
\* A text is a sequence of one-character strings.  An item of localStorage
\* is << >> when absent (getItem gives null) and <<text>> when present.
Digits == <<"0", "1", "2", "3", "4", "5", "6", "7", "8", "9">>

IsDigit(c) == \E i \in 1..10 : Digits[i] = c

DigitValue(c) == (CHOOSE i \in 1..10 : Digits[i] = c) - 1

WhiteSpace == {" ", "\t", "\n"}

\* The number NaN; it stands apart from every number a text of the model
\* parses to, and, as NaN does, it fails every >= test against a positive
\* number.
NaN == -1000000

RECURSIVE TrimStart(_)
TrimStart(t) ==
    IF Len(t) > 0 /\ t[1] \in WhiteSpace THEN TrimStart(Tail(t)) ELSE t

\* The longest prefix of decimal digits.
RECURSIVE DigitPrefix(_)
DigitPrefix(t) ==
    IF Len(t) > 0 /\ IsDigit(t[1])
    THEN <<t[1]>> \o DigitPrefix(Tail(t))
    ELSE << >>

RECURSIVE Decimal(_)
Decimal(d) ==
    IF Len(d) = 0 THEN 0
    ELSE 10 * Decimal(SubSeq(d, 1, Len(d) - 1)) + DigitValue(d[Len(d)])

\* parseInt(text, 10): leading white space is skipped, a sign is read, the
\* digits up to the first other character are the number; no digit gives NaN.
parseInt(t) ==
    LET s    == TrimStart(t)
        neg  == Len(s) > 0 /\ s[1] = "-"
        body == IF Len(s) > 0 /\ s[1] \in {"+", "-"} THEN Tail(s) ELSE s
        z    == DigitPrefix(body)
    IN  IF Len(z) = 0 THEN NaN
        ELSE IF neg THEN 0 - Decimal(z) ELSE Decimal(z)

RECURSIVE NatToString(_)
NatToString(n) ==
    IF n < 10 THEN <<Digits[n + 1]>>
    ELSE NatToString(n \div 10) \o <<Digits[(n % 10) + 1]>>

\* Number.prototype.toString() of an integer or NaN.
toString(v) ==
    IF v = NaN THEN <<"N", "a", "N">>
    ELSE IF v < 0 THEN <<"-">> \o NatToString(0 - v)
    ELSE NatToString(v)

\* a + b of two numbers, either of which may be NaN.
Plus(a, b) == IF a = NaN \/ b = NaN THEN NaN ELSE a + b

\* if (item): the item is present and not the empty text.
Truthy(item) == item # << >> /\ item[1] # << >>

\* The save effect of lines 65-67, run by the render that changed balance from
\* old to new.
SaveEffect(st, old, new) ==
    IF new # old THEN [st EXCEPT !.gameBalance = <<toString(new)>>] ELSE st

\* The session identity of the player of the game.
PlayerKey == "K1"

\* ------------------------------------------------------------ the score
\* Tick counts n at which the double sum of n times 0.1 lies just below the
\* integer n/10 (0.1 is not a binary fraction): 10, and 50, 60, ..., 180.
\* For every other n up to 750 Math.floor of the sum is n \div 10.
FloatShort == {10} \cup {10 * k : k \in 5..18}

\* Math.floor(state.score) after n additions of 0.1
ScoreFloor(n) == IF n \in FloatShort THEN (n \div 10) - 1 ELSE n \div 10

\* ------------------------------------------------------- stateRef.current
\* The initial useRef value, after the mount effect's resize() put the
\* player on the floor.
InitialState ==
    [ player    |-> [ worldX |-> 0, y |-> GroundY - PLAYER_SIZE, vy |-> 0,
                      w |-> PLAYER_SIZE, h |-> PLAYER_SIZE, grounded |-> TRUE,
                      lastCollisionTime |-> 0 ],
      enemy     |-> [ distance |-> MAX_ENEMY_DISTANCE ],
      obstacles |-> << >>,
      particles |-> << >>,
      gameSpeed |-> INITIAL_GAME_SPEED,
      score     |-> 0,
      renderedScore |-> 0,
      frameCount |-> 0,
      isRunning |-> FALSE ]

\* Variant: the reset keeps the speed the last session had reached.
FreshStateKeepsSpeed ==
    [ player    |-> [ worldX |-> 0, y |-> GroundY - PLAYER_SIZE, vy |-> 0,
                      w |-> PLAYER_SIZE, h |-> PLAYER_SIZE, grounded |-> TRUE,
                      lastCollisionTime |-> 0 ],
      enemy     |-> [ distance |-> RESET_ENEMY_DISTANCE ],
      obstacles |-> << >>,
      particles |-> << >>,
      gameSpeed |-> state.gameSpeed,
      score     |-> 0,
      renderedScore |-> 0,
      frameCount |-> 0,
      isRunning |-> TRUE ]

\* Variant: the reset keeps the traps of the last session, armed again.
FreshStateRearmed ==
    [ player    |-> [ worldX |-> 0, y |-> GroundY - PLAYER_SIZE, vy |-> 0,
                      w |-> PLAYER_SIZE, h |-> PLAYER_SIZE, grounded |-> TRUE,
                      lastCollisionTime |-> 0 ],
      enemy     |-> [ distance |-> RESET_ENEMY_DISTANCE ],
      obstacles |-> [i \in 1..Len(state.obstacles) |->
                        [state.obstacles[i] EXCEPT !.collided = FALSE]],
      particles |-> << >>,
      gameSpeed |-> INITIAL_GAME_SPEED,
      score     |-> 0,
      renderedScore |-> 0,
      frameCount |-> 0,
      isRunning |-> TRUE ]

\* The record resetGame assigns to stateRef.current.
\* Variant: resetGame installs a record that is not running.
FreshStateStopped ==
    [ player    |-> [ worldX |-> 0, y |-> GroundY - PLAYER_SIZE, vy |-> 0,
                      w |-> PLAYER_SIZE, h |-> PLAYER_SIZE, grounded |-> TRUE,
                      lastCollisionTime |-> 0 ],
      enemy     |-> [ distance |-> RESET_ENEMY_DISTANCE ],
      obstacles |-> << >>,
      particles |-> << >>,
      gameSpeed |-> INITIAL_GAME_SPEED,
      score     |-> 0,
      renderedScore |-> 0,
      frameCount |-> 0,
      isRunning |-> FALSE ]

FreshState ==
    [ player    |-> [ worldX |-> 0, y |-> GroundY - PLAYER_SIZE, vy |-> 0,
                      w |-> PLAYER_SIZE, h |-> PLAYER_SIZE, grounded |-> TRUE,
                      lastCollisionTime |-> 0 ],
      enemy     |-> [ distance |-> RESET_ENEMY_DISTANCE ],
      obstacles |-> << >>,
      particles |-> << >>,
      gameSpeed |-> INITIAL_GAME_SPEED,
      score     |-> 0,
      renderedScore |-> 0,
      frameCount |-> 0,
      isRunning |-> TRUE ]

\* RunnerGame is mounted: its effects have run and the balance is loaded.
MountReady == [ pc |-> "ready", queued |-> << >> ]

\* Auth's state while Home does not render it (the initial useState values).
AuthUnmounted ==
    [ view |-> "SIGNUP", privateKeyInput |-> "", error |-> "",
      generatedAccount |-> << >> ]

\* The state once Home and RunnerGame are mounted with a player logged in.
Init ==
    /\ gameState = "START"
    /\ score = 0
    /\ highScore = 0
    /\ balance \in StoredBalances
    /\ withdrawSuccess = FALSE
    /\ pointsAdded = FALSE
    /\ state = InitialState
    /\ rafPending = 0
    /\ rendered = "START"
    /\ playRequested = FALSE
    /\ sessions = 0
    /\ storage = [ gameBalance |-> <<toString(balance)>>,
                   runner_session_pubkey |-> <<PlayerKey>> ]
    /\ mount = MountReady
    /\ home = [ loading |-> FALSE, userPublicKey |-> <<PlayerKey>> ]
    /\ auth = AuthUnmounted

\* --------------------------------------------------------------- resetGame
\* The START GAME / TRY AGAIN button: it exists only in the START and the
\* GAME_OVER overlay, that is, once the render of that gameState is committed.
ResetGame ==
    /\ gameState \in {"START", "GAME_OVER"}
    /\ rendered = gameState
    /\ sessions < MaxSessions
    /\ sessions' = sessions + 1
    /\ playRequested' = FALSE
    /\ state' = FreshState
    /\ score' = 0
    /\ pointsAdded' = FALSE
    /\ gameState' = "PLAYING"
    /\ UNCHANGED <<highScore, balance, withdrawSuccess, rafPending, rendered>>
    /\ UNCHANGED <<storage, page>>

\* ------------------------------------------------------------ handleKeyDown
\* Space / ArrowUp.
\* Variant: the grounded test left out of the jump branch.
KeyDownEffectAirborne(s) ==
    IF s.isRunning
    THEN [s EXCEPT !.player.vy = JUMP_FORCE, !.player.grounded = FALSE]
    ELSE s

\* Variant: the jump leaves grounded as it was.
KeyDownEffectStaysGrounded(s) ==
    IF s.player.grounded /\ s.isRunning
    THEN [s EXCEPT !.player.vy = JUMP_FORCE]
    ELSE s

KeyDownEffect(s) ==
    IF s.player.grounded /\ s.isRunning
    THEN [s EXCEPT !.player.vy = JUMP_FORCE, !.player.grounded = FALSE]
    ELSE s

\* Variant: the isRunning test left out of the sound request.
KeyDownPlaysWhenStopped(s) == s.player.grounded

KeyDownPlays(s) == s.player.grounded /\ s.isRunning

KeyDown ==
    /\ state' = KeyDownEffect(state)
    /\ playRequested' = KeyDownPlays(state)
    /\ UNCHANGED <<gameState, score, highScore, balance, withdrawSuccess,
                   pointsAdded, rafPending, rendered, sessions>>
    /\ UNCHANGED <<storage, page>>

\* --------------------------------------------------------------------- loop
\* Variant: the step without its early return.
LoopRunsAlways(s) == TRUE

\* Line 247: the step runs only while isRunning.
LoopRuns(s) == s.isRunning

\* Variant: the speed goes up in every tick.
DifficultyEveryTick(s) == [s EXCEPT !.gameSpeed = @ + SPEED_INCREMENT]

\* 1. Difficulty scaling.
Difficulty(s) ==
    IF s.frameCount % DIFFICULTY_PERIOD = 0
    THEN [s EXCEPT !.gameSpeed = @ + SPEED_INCREMENT]
    ELSE s

\* Variant: the player advances by the initial speed, not the current one.
MovePlayerInitialSpeed(s) == [s EXCEPT !.player.worldX = @ + INITIAL_GAME_SPEED]

\* Move the player in world coordinates.
MovePlayer(s) == [s EXCEPT !.player.worldX = @ + s.gameSpeed]

\* 2. Player physics with the ground clamp.

\* Variant: the clamp leaves the vertical velocity as gravity made it.
PlayerPhysicsKeepsVy(s) ==
    LET vy1 == s.player.vy + GRAVITY
        y1  == s.player.y + vy1
    IN  IF y1 + s.player.h >= GroundY
        THEN [s EXCEPT !.player.y = GroundY - s.player.h, !.player.vy = vy1,
                       !.player.grounded = TRUE]
        ELSE [s EXCEPT !.player.y = y1, !.player.vy = vy1,
                       !.player.grounded = FALSE]

\* Variant: the player falls on through the ground line.
PlayerPhysicsNoSnap(s) ==
    LET vy1 == s.player.vy + GRAVITY
        y1  == s.player.y + vy1
    IN  [s EXCEPT !.player.y = y1, !.player.vy = vy1,
                  !.player.grounded = (y1 + s.player.h >= GroundY)]

PlayerPhysics(s) ==
    LET vy1 == s.player.vy + GRAVITY
        y1  == s.player.y + vy1
    IN  IF y1 + s.player.h >= GroundY
        THEN [s EXCEPT !.player.y = GroundY - s.player.h, !.player.vy = 0,
                       !.player.grounded = TRUE]
        ELSE [s EXCEPT !.player.y = y1, !.player.vy = vy1,
                       !.player.grounded = FALSE]

\* Variant: the enemy closes in instead of drifting back.
EnemyDriftCloses(s) ==
    [s EXCEPT !.enemy.distance = @ - (ENEMY_RECOVERY_RATE \div 2)]

\* Variant: the enemy drifts back without a limit.
EnemyDriftOn(s) ==
    [s EXCEPT !.enemy.distance = @ + (ENEMY_RECOVERY_RATE \div 2)]

\* The enemy drifts back: distance += ENEMY_RECOVERY_RATE * 0.5.
EnemyDrift(s) ==
    IF s.enemy.distance < MAX_ENEMY_DISTANCE
    THEN [s EXCEPT !.enemy.distance = @ + (ENEMY_RECOVERY_RATE \div 2)]
    ELSE s

\* Variant: the gap test always passes.
GapMetAnywhere(s, r) == TRUE

\* The gap test of line 300; r is Math.random() * 500.
GapMet(s, r) ==
    \/ Len(s.obstacles) = 0
    \/ s.player.worldX + spawnDistance - s.obstacles[Len(s.obstacles)].x
         > GAP_MIN + r

NewObstacle(s) ==
    [ x |-> s.player.worldX + spawnDistance, y |-> GroundY - obstacleH,
      w |-> obstacleW, h |-> obstacleH, collided |-> FALSE ]

\* 3b. Spawning; chance is the outcome of Math.random() < 0.02.

\* Variant: the new trap is put at the head of the list.
SpawnAtHead(s, r, chance) ==
    IF GapMet(s, r) /\ chance
    THEN [s EXCEPT !.obstacles = <<NewObstacle(s)>> \o @]
    ELSE s

Spawn(s, r, chance) ==
    IF GapMet(s, r) /\ chance
    THEN [s EXCEPT !.obstacles = Append(@, NewObstacle(s))]
    ELSE s

\* Variant: the list is cut back to a single obstacle.
RetainOne(s) ==
    IF Len(s.obstacles) > 1
    THEN [s EXCEPT !.obstacles = Tail(@)]
    ELSE s

\* Variant: nothing is ever dropped.
RetainAll(s) == s

\* Retention: drop the oldest obstacle above the cap.
Retain(s) ==
    IF Len(s.obstacles) > OBSTACLE_CAP
    THEN [s EXCEPT !.obstacles = Tail(@)]
    ELSE s

\* The padded AABB test of lines 333-338.
Overlaps(p, obs) ==
    /\ p.worldX < obs.x + obs.w - hitboxPadding
    /\ p.worldX + p.w > obs.x + hitboxPadding
    /\ p.y < obs.y + obs.h - hitboxPadding
    /\ p.y + p.h > obs.y + hitboxPadding

\* createExplosion(x, y, color): ten particles; vx, vy are the random draws.
createExplosion(s, x, y, color, vx, vy) ==
    [s EXCEPT !.particles = @ \o
        [i \in 1..EXPLOSION_SIZE |->
            [ x |-> x, y |-> y, vx |-> vx, vy |-> vy, life |-> PARTICLE_LIFE,
              color |-> color ]]]

\* A frame is the record the step works on: the simulation record s, the
\* gameState the step has set, and whether it has called setHighScore.

\* Variant: the run-ending statements without isRunning = false.
EndRunStillRunning(f, vx, vy) ==
    [ s |-> createExplosion(f.s, f.s.player.worldX,
                            f.s.player.y + (PLAYER_SIZE \div 2), "red", vx, vy),
      gameState |-> "GAME_OVER",
      over |-> TRUE ]

\* The run-ending statements shared by lines 344-347 and 353-356.
EndRun(f, vx, vy) ==
    [ s |-> createExplosion([f.s EXCEPT !.isRunning = FALSE],
                            f.s.player.worldX,
                            f.s.player.y + (PLAYER_SIZE \div 2), "red", vx, vy),
      gameState |-> "GAME_OVER",
      over |-> TRUE ]

\* Variant: a hit only marks the trap (the run goes on).
HitMarksOnly(f, i, vx, vy) == [f EXCEPT !.s.obstacles[i].collided = TRUE]

\* Variant: a hit ends the run with the enemy left where it was.
HitKeepsDistance(f, i, vx, vy) ==
    EndRun([f EXCEPT !.s.obstacles[i].collided = TRUE], vx, vy)

\* The body of the collision branch, lines 340-347, for obstacle i.
Hit(f, i, vx, vy) ==
    EndRun([f EXCEPT !.s.obstacles[i].collided = TRUE,
                     !.s.enemy.distance = 0], vx, vy)

\* Collision detection: the for loop over the obstacles, from index i on.
RECURSIVE Collide(_, _, _, _)
Collide(f, i, vx, vy) ==
    IF i > Len(f.s.obstacles) THEN f
    ELSE IF ~f.s.obstacles[i].collided /\ Overlaps(f.s.player, f.s.obstacles[i])
         THEN Collide(Hit(f, i, vx, vy), i + 1, vx, vy)
         ELSE Collide(f, i + 1, vx, vy)

\* 4. Enemy catch check.

\* Variant: the enemy catches only below ENEMY_CATCH_DISTANCE.
CatchCheckBelow(f, vx, vy) ==
    IF f.s.enemy.distance < ENEMY_CATCH_DISTANCE
    THEN EndRun(f, vx, vy)
    ELSE f

CatchCheck(f, vx, vy) ==
    IF f.s.enemy.distance <= ENEMY_CATCH_DISTANCE
    THEN EndRun(f, vx, vy)
    ELSE f

\* 6. The danger flag of the drawing phase: enemy.distance < 200.
DANGER_DISTANCE == 2000

isDanger(s) == s.enemy.distance < DANGER_DISTANCE

\* 8. Particles: move, age, drop the dead ones.
MoveParticle(p) ==
    [p EXCEPT !.x = @ + p.vx, !.y = @ + p.vy, !.life = @ - PARTICLE_DECAY]

Alive(p) == p.life > 0

UpdateParticles(s) ==
    [s EXCEPT !.particles =
        SelectSeq([i \in 1..Len(@) |-> MoveParticle(@[i])], Alive)]

\* Math.floor(0.1 * n), the product as the double arithmetic gives it (for
\* every n up to 750 it is n \div 10).
TenthsFloor(n) == n \div 10

\* Variant: the tick that ends the run adds nothing to the score.
AddScoreWhileRunning(s) == IF s.isRunning THEN [s EXCEPT !.score = @ + 1] ELSE s

\* Score: one more addition of 0.1, pushed when its floor grew.
AddScore(s) == [s EXCEPT !.score = @ + 1]

\* Variant: the pushed value is not recorded in renderedScore.
PushScoreUnrecorded(s) == s

PushScore(s) ==
    IF ScoreFloor(s.score) > s.renderedScore
    THEN [s EXCEPT !.renderedScore = ScoreFloor(s.score)]
    ELSE s

NextFrameCount(s) == [s EXCEPT !.frameCount = @ + 1]

\* Variant: the score is pushed before the tick's 0.1 is added.
StepPushesFirst(s0, gs, r, chance, vx, vy) ==
    LET s1 == EnemyDrift(PlayerPhysics(MovePlayer(Difficulty(s0))))
        s2 == Retain(Spawn(s1, r, chance))
        f3 == CatchCheck(Collide([s |-> s2, gameState |-> gs, over |-> FALSE],
                                 1, vx, vy), vx, vy)
        s4 == AddScore(PushScore(UpdateParticles(f3.s)))
    IN  [f3 EXCEPT !.s = NextFrameCount(s4)]

\* One whole execution of the step body, lines 249-500.
Step(s0, gs, r, chance, vx, vy) ==
    LET s1 == EnemyDrift(PlayerPhysics(MovePlayer(Difficulty(s0))))
        s2 == Retain(Spawn(s1, r, chance))
        f3 == CatchCheck(Collide([s |-> s2, gameState |-> gs, over |-> FALSE],
                                 1, vx, vy), vx, vy)
        s4 == PushScore(AddScore(UpdateParticles(f3.s)))
    IN  [f3 EXCEPT !.s = NextFrameCount(s4)]

\* requestAnimationFrame(loop) at the end of the step body, line 501.
Reschedule(n) == n + 1

\* setScore(currentIntScore) of line 496, as the step leaves the React score.
ScoreState(old, before, after) ==
    IF after.renderedScore > before.renderedScore THEN after.renderedScore
    ELSE old

\* Variant: the high score is replaced by the score of the session that ended.
HighScoreStateLast(prev, f) ==
    IF f.over THEN ScoreFloor(f.s.score) ELSE prev

\* setHighScore(prev => Math.max(prev, Math.floor(state.score))): the updater
\* runs at the next render and reads the record the step has finished with.
HighScoreState(prev, f) ==
    IF f.over THEN Max(prev, ScoreFloor(f.s.score)) ELSE prev

\* The distance by which the gap test of line 300 is passed with a random
\* part of 0, as the spawning phase of a tick starting in s sees it (before
\* the first obstacle: the distance run).
GapSlack(s) ==
    LET s1 == MovePlayer(Difficulty(s)) IN
    IF Len(s1.obstacles) = 0 THEN s1.player.worldX
    ELSE s1.player.worldX + spawnDistance
           - s1.obstacles[Len(s1.obstacles)].x - GAP_MIN

\* The random draws <<r, chance>> of the spawning phase: any, until the trial
\* has failed in MaxSpawnDelay ticks in which the gap was met.  r is read only
\* when the trial succeeds and there is a last obstacle.
SpawnDraws(s) ==
    IF GapSlack(s) > MaxSpawnDelay * MovePlayer(Difficulty(s)).gameSpeed
    THEN {<<0, TRUE>>}
    ELSE {<<0, FALSE>>} \cup
         {<<r, TRUE>> : r \in IF Len(s.obstacles) = 0 THEN {0} ELSE GapRandoms}

\* The random draws <<vx, vy>> of createExplosion; they are read only when
\* the run ends in this tick, so one pair stands for all in the other ticks.
ExplosionDraws(s, r, chance) ==
    IF Step(s, "PLAYING", r, chance, 0, 0).over
    THEN ParticleVels \X ParticleVels ELSE {<<0, 0>>}

\* A queued animation-frame callback fires.
Loop ==
    /\ rafPending > 0
    /\ playRequested' = FALSE
    /\ UNCHANGED <<storage, page>>
    /\ IF ~LoopRuns(state)
       THEN /\ rafPending' = rafPending - 1
            /\ UNCHANGED <<gameState, score, highScore, balance,
                           withdrawSuccess, pointsAdded, state, rendered,
                           sessions>>
       ELSE /\ state.frameCount < MaxFrames
            /\ \E d \in SpawnDraws(state) :
               \E v \in ExplosionDraws(state, d[1], d[2]) :
                 LET f == Step(state, gameState, d[1], d[2], v[1], v[2]) IN
                   /\ state' = f.s
                   /\ gameState' = f.gameState
                   /\ highScore' = HighScoreState(highScore, f)
                   /\ score' = ScoreState(score, state, f.s)
            /\ rafPending' = Reschedule(rafPending - 1)
            /\ UNCHANGED <<balance, withdrawSuccess, pointsAdded, rendered,
                           sessions>>

\* ------------------------------------------------- the render and its effects
\* Variant: the effect without its cleanup.
CancelFrameMissing(n) == n

\* The cleanup of the game effect: cancelAnimationFrame(requestID).
CancelFrame(n) == IF n > 0 THEN n - 1 ELSE 0

\* The effect body's tail, lines 504-508.
StartLoop(s, n) == IF s.isRunning THEN n + 1 ELSE n

\* Variant: the handler without its pointsAddedRef test.
SettleBalanceUnguarded(b, sc, added) == IF sc > 0 THEN b + sc ELSE b

\* Variant: the handler never sets pointsAddedRef.
SettleFlagKept(added) == added

\* The GAME_OVER overlay's onAnimationStart, lines 635-644.
SettleBalance(b, sc, added) ==
    IF ~added /\ sc > 0 THEN Plus(b, sc) ELSE b

SettleFlag(added) == TRUE

\* React commits the render of a changed gameState: the game effect is
\* cleaned up and run again, and a mounting GAME_OVER overlay starts its
\* animation, which calls onAnimationStart.
Commit ==
    /\ rendered # gameState
    /\ rendered' = gameState
    /\ rafPending' = StartLoop(state, CancelFrame(rafPending))
    /\ IF gameState = "GAME_OVER"
       THEN /\ balance' = SettleBalance(balance, score, pointsAdded)
            /\ pointsAdded' = SettleFlag(pointsAdded)
       ELSE UNCHANGED <<balance, pointsAdded>>
    /\ playRequested' = FALSE
    /\ storage' = SaveEffect(storage, balance, balance')
    /\ UNCHANGED <<gameState, score, highScore, withdrawSuccess, state,
                   sessions, page>>

\* The mounted overlay starts an animation again (a re-render of the
\* terminal UI): onAnimationStart is called once more.  (A render that changed
\* the balance runs the save effect.)
AnimationStart ==
    /\ rendered = "GAME_OVER"
    /\ gameState = "GAME_OVER"
    /\ balance' = SettleBalance(balance, score, pointsAdded)
    /\ pointsAdded' = SettleFlag(pointsAdded)
    /\ playRequested' = FALSE
    /\ storage' = SaveEffect(storage, balance, balance')
    /\ UNCHANGED <<gameState, score, highScore, withdrawSuccess, state,
                   rafPending, rendered, sessions, page>>

\* ------------------------------------------------------------------ withdraw
\* REQUEST WITHDRAWAL onClick, lines 766-772.

\* Variant: the balance is cleared only above the threshold.
WithdrawBalanceAbove(b) == IF b > MIN_WITHDRAWAL_POINTS THEN 0 ELSE b

WithdrawBalance(b) == IF b >= MIN_WITHDRAWAL_POINTS THEN 0 ELSE b

WithdrawAck(b, ack) == IF b >= MIN_WITHDRAWAL_POINTS THEN TRUE ELSE ack

Withdraw ==
    /\ balance' = WithdrawBalance(balance)
    /\ withdrawSuccess' = WithdrawAck(balance, withdrawSuccess)
    /\ playRequested' = FALSE
    /\ storage' = SaveEffect(storage, balance, balance')
    /\ UNCHANGED <<gameState, score, highScore, pointsAdded, state, rafPending,
                   rendered, sessions, page>>

\* The success dialog is dismissed.
DismissWithdrawSuccess ==
    /\ withdrawSuccess
    /\ withdrawSuccess' = FALSE
    /\ playRequested' = FALSE
    /\ UNCHANGED <<gameState, score, highScore, balance, pointsAdded, state,
                   rafPending, rendered, sessions, storage, page>>

Next ==
    \/ ResetGame
    \/ KeyDown
    \/ Loop
    \/ Commit
    \/ AnimationStart
    \/ Withdraw
    \/ DismissWithdrawSuccess

Spec == Init /\ [][Next]_vars

\* ------------------------------------------------------- a long session
\* The obstacle cap of line 316 is met only after some twenty traps, more
\* than a thousand ticks into a session.  SpecLong follows one session that
\* far along a single line of play (the rehearsed part: every trap is spawned
\* as soon as the gap test allows and is jumped over) and explores every
\* input and every draw from there on.  Each of its behaviours is one of the
\* program's.

\* Ticks of the rehearsed part of the session.
LongWarmup == 1080
\* Ticks of the whole session.
LongFrames == 1150

Rehearsed(s) == s.frameCount < LongWarmup

\* The rehearsed key presses: Space is pressed when a trap is between 70 and
\* 150 px ahead of the player, which clears it at every speed of the session.
TrapAhead(s) ==
    \E i \in 1..Len(s.obstacles) :
        /\ s.obstacles[i].x - s.player.worldX > 700
        /\ s.obstacles[i].x - s.player.worldX <= 1500

JumpDue(s) == TrapAhead(s) /\ s.player.grounded /\ s.isRunning

\* The draws of the spawning phase: in the rehearsed part the trial succeeds
\* at once, with the random part of the gap at 0.
LongSpawnDraws(s) == IF Rehearsed(s) THEN {<<0, TRUE>>} ELSE SpawnDraws(s)

ResetGameLong == sessions = 0 /\ ResetGame

KeyDownLong == (Rehearsed(state) => JumpDue(state)) /\ KeyDown

\* The animation-frame callback, as Loop, up to LongFrames ticks.
LoopLong ==
    /\ rafPending > 0
    /\ playRequested' = FALSE
    /\ UNCHANGED <<storage, page>>
    /\ IF ~LoopRuns(state)
       THEN /\ rafPending' = rafPending - 1
            /\ UNCHANGED <<gameState, score, highScore, balance,
                           withdrawSuccess, pointsAdded, state, rendered,
                           sessions>>
       ELSE /\ state.frameCount < LongFrames
            /\ Rehearsed(state) => ~JumpDue(state)
            /\ \E d \in LongSpawnDraws(state) :
               \E v \in ExplosionDraws(state, d[1], d[2]) :
                 LET f == Step(state, gameState, d[1], d[2], v[1], v[2]) IN
                   /\ state' = f.s
                   /\ gameState' = f.gameState
                   /\ highScore' = HighScoreState(highScore, f)
                   /\ score' = ScoreState(score, state, f.s)
            /\ rafPending' = Reschedule(rafPending - 1)
            /\ UNCHANGED <<balance, withdrawSuccess, pointsAdded, rendered,
                           sessions>>

NextLong ==
    \/ ResetGameLong
    \/ KeyDownLong
    \/ LoopLong
    \/ Commit

SpecLong == Init /\ [][NextLong]_vars

\* ------------------------------------------------------- a fast session
\* gameSpeed grows by 0.5 px every 600 ticks for as long as a run lasts.
\* SpecFast follows one session in which no key is pressed and the spawn
\* trial (Math.random() < 0.02) fails in every tick of a warm-up that takes
\* gameSpeed to 104.5 px per tick, and explores every draw from there on.
\* Each of its behaviours is one of the program's.

\* Ticks of the warm-up: 188 periods of 600 ticks.
FastWarmup == 112800
\* Ticks of the whole session.
FastFrames == 112830

\* The draws of the spawning phase: the trial fails all through the warm-up.
FastSpawnDraws(s) ==
    IF s.frameCount < FastWarmup THEN {<<0, FALSE>>} ELSE SpawnDraws(s)

\* The animation-frame callback, as Loop, up to FastFrames ticks.
LoopFast ==
    /\ rafPending > 0
    /\ playRequested' = FALSE
    /\ UNCHANGED <<storage, page>>
    /\ IF ~LoopRuns(state)
       THEN /\ rafPending' = rafPending - 1
            /\ UNCHANGED <<gameState, score, highScore, balance,
                           withdrawSuccess, pointsAdded, state, rendered,
                           sessions>>
       ELSE /\ state.frameCount < FastFrames
            /\ \E d \in FastSpawnDraws(state) :
               \E v \in ExplosionDraws(state, d[1], d[2]) :
                 LET f == Step(state, gameState, d[1], d[2], v[1], v[2]) IN
                   /\ state' = f.s
                   /\ gameState' = f.gameState
                   /\ highScore' = HighScoreState(highScore, f)
                   /\ score' = ScoreState(score, state, f.s)
            /\ rafPending' = Reschedule(rafPending - 1)
            /\ UNCHANGED <<balance, withdrawSuccess, pointsAdded, rendered,
                           sessions>>

NextFast ==
    \/ ResetGameLong
    \/ LoopFast
    \/ Commit

SpecFast == Init /\ [][NextFast]_vars

\* ------------------------------------------------------ runs without a jump
\* SpecStill follows runs in which no key is pressed, with the scheduling the
\* browser and React provide: a queued animation-frame callback is fired and
\* a pending render is committed.  A run starts from the START screen, or
\* is taken up FastWarmup ticks into a session whose spawn trial has failed
\* so far (the state SpecFast reaches at that tick).  The spawn trial is
\* fair: once the gap is met it fails in at most MaxSpawnDelay ticks.

\* The number of ticks among the first n whose frameCount is a multiple of
\* DIFFICULTY_PERIOD: the speed steps taken.
SpeedSteps(n) ==
    (n \div DIFFICULTY_PERIOD) + (IF n % DIFFICULTY_PERIOD = 0 THEN 0 ELSE 1)

\* gameSpeed after n ticks of a session.
SpeedAfter(n) == INITIAL_GAME_SPEED + SPEED_INCREMENT * SpeedSteps(n)

\* player.worldX after n ticks of a session: the sum of the speeds of the
\* ticks, q whole periods and r ticks of the next one.
WorldXAfter(n) ==
    LET q == n \div DIFFICULTY_PERIOD
        r == n % DIFFICULTY_PERIOD
    IN  n * INITIAL_GAME_SPEED
          + SPEED_INCREMENT
              * (DIFFICULTY_PERIOD * ((q * (q + 1)) \div 2) + r * (q + 1))

\* The record after n ticks without a key pressed or a trap spawned.
StillState(n) ==
    [FreshState EXCEPT !.player.worldX = WorldXAfter(n),
                       !.enemy.distance = MAX_ENEMY_DISTANCE,
                       !.gameSpeed = SpeedAfter(n),
                       !.score = n,
                       !.renderedScore = ScoreFloor(n),
                       !.frameCount = n]

InitStill ==
    /\ highScore = 0
    /\ balance \in StoredBalances
    /\ withdrawSuccess = FALSE
    /\ pointsAdded = FALSE
    /\ playRequested = FALSE
    /\ storage = [ gameBalance |-> <<toString(balance)>>,
                   runner_session_pubkey |-> <<PlayerKey>> ]
    /\ mount = MountReady
    /\ home = [ loading |-> FALSE, userPublicKey |-> <<PlayerKey>> ]
    /\ auth = AuthUnmounted
    /\ \/ /\ gameState = "START"
          /\ rendered = "START"
          /\ state = InitialState
          /\ score = 0
          /\ rafPending = 0
          /\ sessions = 0
       \/ /\ gameState = "PLAYING"
          /\ rendered = "PLAYING"
          /\ state = StillState(FastWarmup)
          /\ score = ScoreFloor(FastWarmup)
          /\ rafPending = 1
          /\ sessions = 1

\* The draws of the spawning phase.
StillSpawnDraws(s) ==
    IF s.frameCount < FastWarmup THEN SpawnDraws(s) ELSE FastSpawnDraws(s)

\* The animation-frame callback, as Loop, for MaxFrames ticks of a session
\* and for the ticks from FastWarmup to FastFrames.
LoopStill ==
    /\ rafPending > 0
    /\ playRequested' = FALSE
    /\ UNCHANGED <<storage, page>>
    /\ IF ~LoopRuns(state)
       THEN /\ rafPending' = rafPending - 1
            /\ UNCHANGED <<gameState, score, highScore, balance,
                           withdrawSuccess, pointsAdded, state, rendered,
                           sessions>>
       ELSE /\ \/ state.frameCount < MaxFrames
               \/ /\ state.frameCount >= FastWarmup
                  /\ state.frameCount < FastFrames
            /\ \E d \in StillSpawnDraws(state) :
               \E v \in ExplosionDraws(state, d[1], d[2]) :
                 LET f == Step(state, gameState, d[1], d[2], v[1], v[2]) IN
                   /\ state' = f.s
                   /\ gameState' = f.gameState
                   /\ highScore' = HighScoreState(highScore, f)
                   /\ score' = ScoreState(score, state, f.s)
            /\ rafPending' = Reschedule(rafPending - 1)
            /\ UNCHANGED <<balance, withdrawSuccess, pointsAdded, rendered,
                           sessions>>

NextStill ==
    \/ ResetGameLong
    \/ LoopStill
    \/ Commit

SpecStill ==
    InitStill /\ [][NextStill]_vars /\ WF_vars(LoopStill) /\ WF_vars(Commit)

\* ---------------------------------------------------- the catch check alone
\* In a session the enemy distance stays between 300 and 350 px until a trap
\* is hit, so the catch check of lines 352-357 never fires on its own.
\* SpecCatch applies the step to records in which the distance has been given
\* a value the check can fire on: the record a session holds after n ticks
\* without a trap and without a jump, but for enemy.distance.

\* enemy.distance before the tick; the tick adds 0.5 before it compares
CatchDistances == {0, 290, 295, 300, 3000}
\* ticks the session has run
CatchTicks == {0, 9, 110}
\* the high score of earlier sessions
PriorHighScores == {0, 3, 20}

CatchInput(n, d) ==
    LET speed == IF n = 0 THEN INITIAL_GAME_SPEED
                 ELSE INITIAL_GAME_SPEED + SPEED_INCREMENT
    IN  [FreshState EXCEPT !.player.worldX = n * speed,
                           !.gameSpeed = speed,
                           !.score = n,
                           !.renderedScore = ScoreFloor(n),
                           !.frameCount = n,
                           !.enemy.distance = d]

InitCatch ==
    /\ gameState = "PLAYING"
    /\ rendered = "PLAYING"
    /\ rafPending = 1
    /\ highScore \in PriorHighScores
    /\ balance \in StoredBalances
    /\ withdrawSuccess = FALSE
    /\ pointsAdded = FALSE
    /\ playRequested = FALSE
    /\ sessions = 1
    /\ storage = [ gameBalance |-> <<toString(balance)>>,
                   runner_session_pubkey |-> <<PlayerKey>> ]
    /\ mount = MountReady
    /\ home = [ loading |-> FALSE, userPublicKey |-> <<PlayerKey>> ]
    /\ auth = AuthUnmounted
    /\ \E n \in CatchTicks : \E d \in CatchDistances :
         /\ state = CatchInput(n, d)
         /\ score = ScoreFloor(n)

NextCatch ==
    \/ Loop
    \/ Commit
    \/ AnimationStart

SpecCatch == InitCatch /\ [][NextCatch]_vars

\* ------------------------------------------------------ RunnerGame's mount
\* SpecMount follows the mount of RunnerGame from its first render: the
\* effects of that render (the balance load of lines 57-62, the balance save
\* of lines 65-67, the game effect's resize), the render the queued setBalance
\* causes, and from then on the game without key presses (sessions are
\* played, settled and withdrawn on the loaded balance).

\* The texts localStorage may hold under gameBalance.
StoredTexts ==
    { << >>,
      <<"0">>,
      <<"7">>,
      <<"4", "2">>,
      <<"9", "8", "8">>,
      <<"9", "9", "9">>,
      <<"1", "0", "0", "0">>,
      <<"1", "0", "0", "1">>,
      <<"5", "0", "0", "0">>,
      <<"0", "0", "7">>,
      <<"-", "5">>,
      <<"+", "3">>,
      <<" ", "4", "2">>,
      <<"4", "2", " ">>,
      <<"\t", "9">>,
      <<"1", "2", "a", "b", "c">>,
      <<"a", "b", "c">>,
      <<"a", "1">>,
      <<"N", "a", "N">>,
      <<"n", "u", "l", "l">>,
      <<"1", "e", "3">>,
      <<"3", ".", "9">>,
      <<".", "5">>,
      <<"0", "x", "1", "0">>,
      <<"-">>,
      <<"+">>,
      <<" ">>,
      <<"-", "-", "1">>,
      <<"1", ",", "0", "0", "0">>,
      <<"9", "9", "9", "9", "9">>,
      <<"1", " ", "2">>,
      <<"0", ".", "0">> }

StoredItems == {<< >>} \cup {<<t>> : t \in StoredTexts}

\* resize() of lines 158-167.
Resize(s, gs) ==
    IF ~s.isRunning /\ gs = "START"
    THEN [s EXCEPT !.player.y = CanvasHeight - PLAYER_GROUND_OFFSET - PLAYER_SIZE]
    ELSE s

\* The first render of RunnerGame is committed; no effect has run.
InitMount ==
    /\ gameState = "START"
    /\ score = 0
    /\ highScore = 0
    /\ balance = 0
    /\ withdrawSuccess = FALSE
    /\ pointsAdded = FALSE
    /\ state = [InitialState EXCEPT !.player.y = 0]
    /\ rafPending = 0
    /\ rendered = "START"
    /\ playRequested = FALSE
    /\ sessions = 0
    /\ \E item \in StoredItems :
         storage = [ gameBalance |-> item,
                     runner_session_pubkey |-> <<PlayerKey>> ]
    /\ mount = [ pc |-> "rendered", queued |-> << >> ]
    /\ home = [ loading |-> FALSE, userPublicKey |-> <<PlayerKey>> ]
    /\ auth = AuthUnmounted

\* Variant: the component without its load effect.
LoadEffectMissing(st) == << >>

\* The load effect: the value it hands to setBalance, if any.
LoadEffect(st) ==
    IF Truthy(st.gameBalance) THEN <<parseInt(st.gameBalance[1])>> ELSE << >>

\* The effects of the first render, in the order of the source: load, save
\* (which sees the balance of that render), the game effect.  A queued
\* setBalance of another value than the balance causes a render.
MountEffects ==
    /\ mount.pc = "rendered"
    /\ LET q == LoadEffect(storage)
           renders == q # << >> /\ q[1] # balance
       IN  mount' = IF renders THEN [ pc |-> "effects", queued |-> q ]
                    ELSE MountReady
    /\ storage' = [storage EXCEPT !.gameBalance = <<toString(balance)>>]
    /\ state' = Resize(state, gameState)
    /\ playRequested' = FALSE
    /\ UNCHANGED <<gameState, score, highScore, balance, withdrawSuccess,
                   pointsAdded, rafPending, rendered, sessions, home, auth>>

\* The render with the loaded balance, and its save effect.
Rerender ==
    /\ mount.pc = "effects"
    /\ balance' = mount.queued[1]
    /\ storage' = SaveEffect(storage, balance, balance')
    /\ mount' = MountReady
    /\ playRequested' = FALSE
    /\ UNCHANGED <<gameState, score, highScore, withdrawSuccess, pointsAdded,
                   state, rafPending, rendered, sessions, home, auth>>

\* The handlers of the mounted game.
Mounted == mount.pc = "ready"

NextMount ==
    \/ MountEffects
    \/ Rerender
    \/ Mounted /\ ResetGame
    \/ Mounted /\ Loop
    \/ Mounted /\ Commit
    \/ Mounted /\ AnimationStart
    \/ Mounted /\ Withdraw
    \/ Mounted /\ DismissWithdrawSuccess

SpecMount == InitMount /\ [][NextMount]_vars

\* ------------------------------------------------------------ Home and Auth
\* SpecAuth follows the page from Home's first render: the session effect,
\* the Auth screen (wallet generation, private-key login, the view switches)
\* and logout.  bs58 and Keypair are libraries outside the repository: a
\* private-key text is modelled by what they make of it.

\* Home does not render RunnerGame.
MountNone == [ pc |-> "unmounted", queued |-> << >> ]

\* RunnerGame's first render is committed, none of its effects has run.
MountRendered == [ pc |-> "rendered", queued |-> << >> ]

\* The values RunnerGame's useState and useRef calls give its first render.
FirstRender ==
    /\ gameState = "START"
    /\ score = 0
    /\ highScore = 0
    /\ balance = 0
    /\ withdrawSuccess = FALSE
    /\ pointsAdded = FALSE
    /\ state = [InitialState EXCEPT !.player.y = 0]
    /\ rafPending = 0
    /\ rendered = "START"
    /\ playRequested = FALSE
    /\ sessions = 0

\* Private-key texts: blank is whether trim() leaves nothing, base58 whether
\* bs58.decode accepts the trimmed text, size the bytes it gives, pair whether
\* Keypair.fromSecretKey accepts 64 bytes (the public half matches), and
\* publicKey the key pair's public key.
PrivateKeyInputs ==
    { [ text |-> "",           blank |-> TRUE,  base58 |-> TRUE,  size |-> 0,
        pair |-> FALSE, publicKey |-> "" ],
      [ text |-> "  ",         blank |-> TRUE,  base58 |-> FALSE, size |-> 0,
        pair |-> FALSE, publicKey |-> "" ],
      [ text |-> "0OIl",       blank |-> FALSE, base58 |-> FALSE, size |-> 0,
        pair |-> FALSE, publicKey |-> "" ],
      [ text |-> " 0OIl",      blank |-> FALSE, base58 |-> FALSE, size |-> 0,
        pair |-> FALSE, publicKey |-> "" ],
      [ text |-> "3yZe7d",     blank |-> FALSE, base58 |-> TRUE,  size |-> 4,
        pair |-> FALSE, publicKey |-> "" ],
      [ text |-> "2forged64",  blank |-> FALSE, base58 |-> TRUE,  size |-> 64,
        pair |-> FALSE, publicKey |-> "K9" ],
      [ text |-> "4secretK1",  blank |-> FALSE, base58 |-> TRUE,  size |-> 64,
        pair |-> TRUE,  publicKey |-> "K1" ],
      [ text |-> " 5secretK2 ", blank |-> FALSE, base58 |-> TRUE, size |-> 64,
        pair |-> TRUE,  publicKey |-> "K2" ] }

\* What the libraries make of a text.
KeyMaterial(text) == CHOOSE k \in PrivateKeyInputs : k.text = text

\* Keypair.generate(): the public keys it may give; it may also throw.
GeneratedKeys == {"K3", "K4"}

\* What localStorage holds under runner_session_pubkey when Home mounts.
StoredSessions == {<< >>, <<"">>, <<"K1">>}

SECRET_KEY_SIZE == 64

InitHome ==
    /\ FirstRender
    /\ mount = MountNone
    /\ home = [ loading |-> TRUE, userPublicKey |-> << >> ]
    /\ auth = AuthUnmounted
    /\ \E item \in StoredSessions :
         storage = [ gameBalance |-> << >>, runner_session_pubkey |-> item ]

\* if (stored) / !userPublicKey on a session item (a key is a string).
HasKey(item) == item # << >> /\ item[1] # ""

\* Home's session effect, lines 47-53 of the page.
HomeMount ==
    /\ home.loading
    /\ LET stored == storage.runner_session_pubkey IN
         IF HasKey(stored)
         THEN home' = [ loading |-> FALSE, userPublicKey |-> stored ]
              /\ mount' = MountRendered
         ELSE home' = [ loading |-> FALSE, userPublicKey |-> << >> ]
              /\ mount' = mount
    /\ UNCHANGED <<game, storage, auth>>

\* Home renders Auth.
AuthShown == ~home.loading /\ ~HasKey(home.userPublicKey)

\* GENERATE WALLET: handleGenerateValues.
GenerateValues ==
    /\ AuthShown
    /\ auth.view = "SIGNUP"
    /\ auth.generatedAccount = << >>
    /\ \/ \E k \in GeneratedKeys :
            auth' = [auth EXCEPT !.generatedAccount = <<[publicKey |-> k]>>,
                                 !.error = ""]
       \/ auth' = [auth EXCEPT !.error = "Failed to generate wallet"]
    /\ UNCHANGED <<game, storage, mount, home>>

\* The private-key field's onChange.
TypePrivateKey ==
    /\ AuthShown
    /\ auth.view = "LOGIN"
    /\ \E k \in PrivateKeyInputs : auth' = [auth EXCEPT !.privateKeyInput = k.text]
    /\ UNCHANGED <<game, storage, mount, home>>

\* Home's handleLogin (the onLogin prop), with RunnerGame mounting in Auth's
\* place.
OnLogin(key) ==
    /\ home' = [home EXCEPT !.userPublicKey = <<key>>]
    /\ storage' = [storage EXCEPT !.runner_session_pubkey = <<key>>]
    /\ mount' = MountRendered
    /\ auth' = AuthUnmounted
    /\ UNCHANGED game

\* Variant: the decoded bytes are taken for a key pair without
\* Keypair.fromSecretKey rejecting any.
LoginOutcomeUnchecked(k) ==
    IF k.blank
    THEN [ error |-> <<"Please enter a private key">>, login |-> << >> ]
    ELSE IF ~k.base58
    THEN [ error |-> <<"Invalid Private Key. Please check your input.">>,
           login |-> << >> ]
    ELSE [ error |-> << >>, login |-> <<k.publicKey>> ]

\* Auth's handleLogin on the text k: the message it hands to setError, if
\* any, and the key it hands to onLogin, if any.
LoginOutcome(k) ==
    IF k.blank
    THEN [ error |-> <<"Please enter a private key">>, login |-> << >> ]
    ELSE IF ~k.base58 \/ k.size # SECRET_KEY_SIZE \/ ~k.pair
    THEN [ error |-> <<"Invalid Private Key. Please check your input.">>,
           login |-> << >> ]
    ELSE [ error |-> << >>, login |-> <<k.publicKey>> ]

\* ACCESS GAME.
HandleLogin ==
    /\ AuthShown
    /\ auth.view = "LOGIN"
    /\ LET out == LoginOutcome(KeyMaterial(auth.privateKeyInput)) IN
         IF out.login # << >>
         THEN OnLogin(out.login[1])
         ELSE /\ auth' = [auth EXCEPT !.error = out.error[1]]
              /\ UNCHANGED <<game, storage, mount, home>>

\* PLAY: handleSignupContinue.
SignupContinue ==
    /\ AuthShown
    /\ auth.view = "SIGNUP"
    /\ auth.generatedAccount # << >>
    /\ OnLogin(auth.generatedAccount[1].publicKey)

\* "Login here".
ShowLogin ==
    /\ AuthShown
    /\ auth.view = "SIGNUP"
    /\ auth' = [auth EXCEPT !.view = "LOGIN", !.error = "",
                            !.generatedAccount = << >>]
    /\ UNCHANGED <<game, storage, mount, home>>

\* "Create one".
ShowSignup ==
    /\ AuthShown
    /\ auth.view = "LOGIN"
    /\ auth' = [auth EXCEPT !.view = "SIGNUP", !.error = ""]
    /\ UNCHANGED <<game, storage, mount, home>>

\* LOGOUT: handleLogout; RunnerGame is unmounted and its state discarded.
Logout ==
    /\ ~home.loading
    /\ HasKey(home.userPublicKey)
    /\ home' = [home EXCEPT !.userPublicKey = << >>]
    /\ storage' = [storage EXCEPT !.runner_session_pubkey = << >>]
    /\ mount' = MountNone
    /\ auth' = AuthUnmounted
    /\ gameState' = "START"
    /\ score' = 0
    /\ highScore' = 0
    /\ balance' = 0
    /\ withdrawSuccess' = FALSE
    /\ pointsAdded' = FALSE
    /\ state' = [InitialState EXCEPT !.player.y = 0]
    /\ rafPending' = 0
    /\ rendered' = "START"
    /\ playRequested' = FALSE
    /\ sessions' = 0

NextAuth ==
    \/ HomeMount
    \/ GenerateValues
    \/ TypePrivateKey
    \/ HandleLogin
    \/ SignupContinue
    \/ ShowLogin
    \/ ShowSignup
    \/ Logout

SpecAuth == InitHome /\ [][NextAuth]_vars

\* ==================================================================== claims

Tick == state'.frameCount = state.frameCount + 1

\* C1: once isRunning is false, a step that leaves it false (every invocation
\* of loop, and every other handler but resetGame) changes nothing of the
\* simulation record or the pushed score, and queues no animation frame.
C1_StoppedLoopIsNoOp ==
    [][(~state.isRunning /\ ~state'.isRunning)
         => /\ state' = state
            /\ score' = score
            /\ gameState' = gameState
            /\ rafPending' <= rafPending]_vars

\* A queued frame fired after the run ended and before the effect's cleanup:
\* loop was invoked with isRunning false.
C1_Witness ==
    /\ gameState = "GAME_OVER"
    /\ rendered = "PLAYING"
    /\ ~state.isRunning
    /\ rafPending = 0

\* C2: the balance grows only in a step that takes pointsAddedRef from false
\* to true while the GAME_OVER overlay is up; since only resetGame clears the
\* flag, a session is credited at most once, however often the handler fires.
C2_CreditAtMostOncePerSession ==
    [][balance' > balance
         => (~pointsAdded /\ pointsAdded' /\ gameState = "GAME_OVER")]_vars

\* The session has been credited and its overlay is still mounted, so the
\* handler can fire again.
C2_Witness ==
    /\ gameState = "GAME_OVER"
    /\ rendered = "GAME_OVER"
    /\ pointsAdded
    /\ balance \notin StoredBalances

\* C3: resetGame leaves GAME_OVER only after the settle handler has run for
\* the session that ended (pointsAddedRef is true when the reset happens).
C3_SettledBeforeReset ==
    [][(gameState = "GAME_OVER" /\ gameState' = "PLAYING") => pointsAdded]_vars

\* A second session has begun after a completed, credited one.
C3_Witness ==
    /\ gameState = "PLAYING"
    /\ state.isRunning
    /\ ~pointsAdded
    /\ highScore > 0
    /\ balance \notin StoredBalances

\* C4: the step in which settle acts adds to the balance the floor of the
\* engine's score accumulator as the terminal tick left it, which is also the
\* React score shown as FINAL SCORE.
C4_SettledAmountIsFinalScore ==
    [][(~pointsAdded /\ pointsAdded')
         => /\ score = ScoreFloor(state.score)
            /\ balance' = balance + ScoreFloor(state.score)]_vars

\* Settle has acted on a positive final score.
C4_Witness ==
    /\ pointsAdded
    /\ ScoreFloor(state.score) > 0
    /\ \E b \in StoredBalances : balance = b + ScoreFloor(state.score)

\* C5: an obstacle that the player's padded hitbox overlaps (positions change
\* only in a tick, whose collision phase sees them as the tick leaves them) is
\* triggered, the enemy distance is 0, the run has stopped and the game state
\* is GAME_OVER.
C5_OverlapEndsRun ==
    \A i \in 1..Len(state.obstacles) :
        Overlaps(state.player, state.obstacles[i])
          => /\ state.obstacles[i].collided
             /\ state.enemy.distance = 0
             /\ ~state.isRunning
             /\ gameState = "GAME_OVER"

\* The player overlaps a trap.
C5_Witness ==
    \E i \in 1..Len(state.obstacles) :
        Overlaps(state.player, state.obstacles[i])

\* C6: a tick moves player.worldX by exactly the gameSpeed of that tick (the
\* value after the tick's difficulty phase), which is positive; any other step
\* leaves worldX alone, unless it is resetGame installing the fresh record.
C6_WorldXAdvancesByGameSpeed ==
    [][IF Tick
       THEN /\ state'.player.worldX = state.player.worldX + state'.gameSpeed
            /\ state'.gameSpeed > 0
       ELSE \/ state'.player.worldX = state.player.worldX
            \/ state' = FreshState]_vars

\* Two ticks of a run have been executed.
C6_Witness ==
    /\ state.isRunning
    /\ state.frameCount = 2
    /\ state.player.worldX = 2 * state.gameSpeed

\* C7: while the player is not grounded, a step that is neither a tick nor a
\* reset (in particular a jump input) changes no field of the simulation
\* record and requests no sound; the record holds no input queue, so nothing
\* is left for a later tick to read.
C7_AirborneJumpDropped ==
    [][(~state.player.grounded /\ ~Tick /\ state' # FreshState)
         => (state' = state /\ ~playRequested')]_vars

\* The player is in the air, some ticks after a jump.
C7_Witness ==
    /\ state.isRunning
    /\ ~state.player.grounded
    /\ ~playRequested
    /\ state.player.vy > JUMP_FORCE

\* C8: a jump is honoured (its sound requested) only for a grounded player of
\* a running session, and it sets vy to JUMP_FORCE and grounded to false in
\* the same step; every jump input on a grounded, running player does so.
\* Hence a second jump needs a ground contact in between.
C8_SingleJump ==
    [][/\ playRequested'
           => /\ state.player.grounded /\ state.isRunning
              /\ state'.player.vy = JUMP_FORCE
              /\ ~state'.player.grounded
       /\ (KeyDown /\ state.player.grounded /\ state.isRunning)
           => /\ state'.player.vy = JUMP_FORCE
              /\ ~state'.player.grounded
              /\ playRequested']_vars

\* A jump has just been honoured.
C8_Witness ==
    /\ playRequested
    /\ state.player.vy = JUMP_FORCE
    /\ ~state.player.grounded

\* C9: while isRunning is false no step requests the jump sound, and the
\* simulation record changes only by resetGame replacing it.
C9_JumpIgnoredWhenStopped ==
    [][~state.isRunning
         => /\ ~playRequested'
            /\ (state' = state \/ state' = FreshState)]_vars

\* The run is over with the player standing on the ground.
C9_Witness ==
    /\ gameState = "GAME_OVER"
    /\ ~state.isRunning
    /\ state.player.grounded

\* C10: gameState changes only START -> PLAYING and GAME_OVER -> PLAYING, both
\* with the fresh record installed, and PLAYING -> GAME_OVER in a step that
\* stops the run with a triggered trap or a caught player; isRunning becomes
\* true again only by the fresh record.
C10_SessionStateMachine ==
    [][/\ gameState' # gameState
           => \/ /\ gameState \in {"START", "GAME_OVER"}
                 /\ gameState' = "PLAYING"
                 /\ state' = FreshState
              \/ /\ gameState = "PLAYING"
                 /\ gameState' = "GAME_OVER"
                 /\ state.isRunning /\ ~state'.isRunning
                 /\ \/ \E i \in 1..Len(state'.obstacles) :
                          state'.obstacles[i].collided
                    \/ state'.enemy.distance <= ENEMY_CATCH_DISTANCE
       /\ (state.isRunning /\ ~state'.isRunning) => gameState' = "GAME_OVER"
       /\ (~state.isRunning /\ state'.isRunning) => state' = FreshState]_vars

\* A session ended and the next one is being played.
C10_Witness ==
    /\ gameState = "PLAYING"
    /\ rendered = "PLAYING"
    /\ highScore > 0
    /\ state.frameCount > 0

\* C11: in a state whose run was ended by a trap collision (a trap is
\* triggered), the particle list holds exactly the EXPLOSION_SIZE particles of
\* one burst, each created at (player.worldX, player.y + PLAYER_SIZE / 2) and
\* since moved once by the particle phase of the terminal tick.
C11_TrapBurstIsTenParticles ==
    (\E i \in 1..Len(state.obstacles) : state.obstacles[i].collided)
      => /\ Len(state.particles) = EXPLOSION_SIZE
         /\ \A k \in 1..Len(state.particles) :
              /\ state.particles[k].x - state.particles[k].vx
                   = state.player.worldX
              /\ state.particles[k].y - state.particles[k].vy
                   = state.player.y + (PLAYER_SIZE \div 2)

\* C12: a withdrawal request with balance >= MIN_WITHDRAWAL_POINTS sets the
\* balance to 0 and shows the acknowledgment; with a smaller balance it
\* changes neither.  No other step lowers the balance or raises the
\* acknowledgment.
C12_WithdrawThreshold ==
    [][/\ Withdraw
           => IF balance >= MIN_WITHDRAWAL_POINTS
              THEN balance' = 0 /\ withdrawSuccess'
              ELSE balance' = balance /\ withdrawSuccess' = withdrawSuccess
       /\ (balance' < balance \/ (~withdrawSuccess /\ withdrawSuccess'))
           => /\ balance >= MIN_WITHDRAWAL_POINTS
              /\ balance' = 0
              /\ withdrawSuccess']_vars

\* A withdrawal has succeeded on a balance that a settled session had raised
\* to the threshold.
C12_Witness ==
    /\ withdrawSuccess
    /\ balance = 0
    /\ pointsAdded

\* C13: in every state (so after every spawn and every eviction) the obstacle
\* list is strictly ascending by x.
C13_ObstaclesAscending ==
    \A i \in 1..Len(state.obstacles) : \A j \in 1..Len(state.obstacles) :
        i < j => state.obstacles[i].x < state.obstacles[j].x

\* The list is full and its head is no longer the first trap of the session
\* (that one lies within spawnDistance + GAP_MIN of the start): traps were
\* spawned and the oldest was evicted.
C13_Witness ==
    /\ Len(state.obstacles) = OBSTACLE_CAP
    /\ state.obstacles[1].x > spawnDistance + GAP_MIN

\* C14: enemy.distance is never negative, and once the run has ended (the
\* enemy has caught the player) it is exactly 0.
C14_EnemyDistance ==
    /\ state.enemy.distance >= 0
    /\ gameState = "GAME_OVER" => state.enemy.distance = 0

\* The player has been caught: the run is over with the enemy at distance 0.
C14_Witness ==
    /\ gameState = "GAME_OVER"
    /\ state.enemy.distance = 0
    /\ Len(state.particles) > 0

C16_ResetInstallsFreshRecord ==
    [][sessions' # sessions
         => /\ state'.obstacles = << >>
            /\ state'.particles = << >>
            /\ state'.gameSpeed = INITIAL_GAME_SPEED
            /\ state'.score = 0
            /\ state'.frameCount = 0
            /\ state'.player.worldX = 0
            /\ state'.player.grounded
            /\ state'.player.y + state'.player.h = GroundY
            /\ state'.player.vy = 0
            /\ state'.isRunning
            /\ score' = 0]_vars

\* resetGame has just been called on the record of a session that ended.
C16_Witness ==
    /\ sessions = 2
    /\ state.frameCount = 0
    /\ state.isRunning
    /\ highScore > 0

\* C17: the step that ends a session leaves the high score at the larger of
\* its value before and the final integer score, which is the floor of the
\* engine's accumulator and the pushed score that is displayed (and that C4
\* shows settled); no other step changes the high score.
C17_HighScoreIsMax ==
    [][/\ (gameState = "PLAYING" /\ gameState' = "GAME_OVER")
           => /\ highScore' = Max(highScore, ScoreFloor(state'.score))
              /\ score' = ScoreFloor(state'.score)
       /\ highScore' # highScore
           => (gameState = "PLAYING" /\ gameState' = "GAME_OVER")]_vars

\* A second session has ended with a final score below the high score of the
\* first.
C17_Witness ==
    /\ gameState = "GAME_OVER"
    /\ sessions = 2
    /\ highScore > ScoreFloor(state.score)
    /\ score = ScoreFloor(state.score)

\* C18: an obstacle whose collided flag is true (obstacles are told apart by
\* their x) has it true after every step that leaves the obstacle in the list.
C18_CollidedStaysTrue ==
    [][\A i \in 1..Len(state.obstacles) :
         state.obstacles[i].collided
           => \A j \in 1..Len(state'.obstacles) :
                state'.obstacles[j].x = state.obstacles[i].x
                  => state'.obstacles[j].collided]_vars

\* A trap was triggered and steps have been taken since: the GAME_OVER render
\* is committed and the handlers have run on the record that holds the trap.
C18_Witness ==
    /\ rendered = "GAME_OVER"
    /\ rafPending = 0
    /\ \E i \in 1..Len(state.obstacles) : state.obstacles[i].collided

\* C19: after the first tick of a session, taken from the freshly reset record
\* with no jump and no spawn, player.worldX is INITIAL_GAME_SPEED (10 px).
C19_FirstTickAdvancesTen ==
    (/\ state.frameCount = 1
     /\ state.player.grounded
     /\ state.obstacles = << >>)
      => state.player.worldX = INITIAL_GAME_SPEED

\* A player resting on the ground line, no jump pending.
Resting(s) ==
    /\ s.player.grounded
    /\ s.player.y + s.player.h = GroundY
    /\ s.player.vy = 0

\* C20 as stated: a tick taken with the player resting on the ground leaves
\* player.vy at its value before plus GRAVITY, and the player grounded.
C20_RestingTickAddsGravity ==
    [][(Tick /\ Resting(state))
         => /\ state'.player.vy = state.player.vy + GRAVITY
            /\ state'.player.grounded]_vars

\* C20, amended: a tick taken with the player resting on the ground leaves
\* the player resting: GRAVITY is added to vy and to y, the ground clamp of
\* the same tick puts y back on the ground line and vy back to 0, and
\* grounded is still true.
C20_RestingTickKeepsResting ==
    [][(Tick /\ Resting(state))
         => /\ state'.player.vy = 0
            /\ state'.player.y = state.player.y
            /\ state'.player.grounded]_vars

\* Three ticks of a run were taken with the player on the ground.
C20_Witness ==
    /\ state.isRunning
    /\ state.frameCount = 3
    /\ Resting(state)

\* C21: the balance is a non-negative integer in every state of the mount and
\* after it, and once the effects have run the stored text is that of a
\* non-negative integer (an absent or unparsable item having given balance 0).
C21_BalanceIsNatural ==
    /\ balance \in Nat
    /\ mount.pc # "rendered" => parseInt(storage.gameBalance[1]) \in Nat

\* A private-key text that is empty or malformed: nothing is left by trim(),
\* or it is not base58, or not the 64 bytes of a key pair.
Malformed(k) ==
    k.blank \/ ~k.base58 \/ k.size # SECRET_KEY_SIZE \/ ~k.pair

\* C22: a login attempt on an empty or malformed text sets an error message
\* and changes neither Home's state nor localStorage nor what is mounted; and
\* a step that gives Home a session identity (onLogin was called) stores that
\* identity and took it from a well-formed private-key text on the login view
\* or from the generated account on the signup view.
C22_LoginRejectsBadKeys ==
    [][/\ (HandleLogin /\ Malformed(KeyMaterial(auth.privateKeyInput)))
           => /\ auth'.error # ""
              /\ home' = home
              /\ storage' = storage
              /\ mount' = mount
       /\ (~home.loading /\ ~HasKey(home.userPublicKey)
             /\ home'.userPublicKey # home.userPublicKey)
           => LET key == home'.userPublicKey[1]
                  k == KeyMaterial(auth.privateKeyInput)
              IN  /\ storage'.runner_session_pubkey = <<key>>
                  /\ mount' = MountRendered
                  /\ \/ /\ auth.view = "LOGIN"
                        /\ ~Malformed(k)
                        /\ key = k.publicKey
                     \/ /\ auth.view = "SIGNUP"
                        /\ auth.generatedAccount = <<[publicKey |-> key]>>
       /\ storage'.runner_session_pubkey # storage.runner_session_pubkey
           => storage'.runner_session_pubkey = home'.userPublicKey]_vars

\* A login attempt on a malformed key was refused: the message is up, no
\* identity is stored and the game is not mounted.
C22_Witness ==
    /\ auth.view = "LOGIN"
    /\ auth.error = "Invalid Private Key. Please check your input."
    /\ Malformed(KeyMaterial(auth.privateKeyInput))
    /\ ~HasKey(home.userPublicKey)
    /\ storage.runner_session_pubkey = << >>
    /\ mount = MountNone

\* A trap of the list is triggered in s.
Triggered(s) == \E i \in 1..Len(s.obstacles) : s.obstacles[i].collided

\* C23: a tick in which the player hits a trap (a trap becomes triggered)
\* leaves gameSpeed lower than it was before the tick.
C23_TrapHitLowersSpeed ==
    [][(Tick /\ ~Triggered(state) /\ Triggered(state'))
         => state'.gameSpeed < state.gameSpeed]_vars

\* The obstacles of s that a step to t removed from the list (obstacles are
\* told apart by their x).
Evicted(s, t) ==
    { i \in 1..Len(s.obstacles) :
        \A j \in 1..Len(t.obstacles) : t.obstacles[j].x # s.obstacles[i].x }

\* C24: every obstacle that a tick removes from the list lies behind the
\* player as the retention phase of that tick sees them: its x + w is less
\* than player.worldX.
C24_EvictedLiesBehind ==
    [][Tick => \A i \in Evicted(state, state') :
                 state.obstacles[i].x + state.obstacles[i].w
                   < state'.player.worldX]_vars

\* The oldest trap of the session has been evicted from the full list, and
\* the run goes on with the player past the trap that is the head now.
C24_Witness ==
    /\ state.isRunning
    /\ Len(state.obstacles) = OBSTACLE_CAP
    /\ state.obstacles[1].x > spawnDistance + GAP_MIN
    /\ state.obstacles[1].x + state.obstacles[1].w < state.player.worldX

\* C25: every step leaves at most OBSTACLE_CAP obstacles in the list; a tick
\* removes an obstacle only from a full list to which it has appended a new
\* one, and then exactly the head, whose x is the lowest of the list: the
\* rest of the list follows in its order (obstacles are told apart by their
\* x), with the new obstacle at the end.
C25_CapEvictsOldest ==
    [][/\ Len(state'.obstacles) <= OBSTACLE_CAP
       /\ (Tick /\ Evicted(state, state') # {})
           => /\ Len(state.obstacles) = OBSTACLE_CAP
              /\ Evicted(state, state') = {1}
              /\ \A i \in 2..Len(state.obstacles) :
                   state.obstacles[1].x < state.obstacles[i].x
              /\ Len(state'.obstacles) = OBSTACLE_CAP
              /\ \A i \in 2..OBSTACLE_CAP :
                   state'.obstacles[i - 1].x = state.obstacles[i].x
              /\ state'.obstacles[OBSTACLE_CAP].x
                   > state.obstacles[OBSTACLE_CAP].x]_vars

\* The tick just taken appended a trap to a full list and dropped the oldest:
\* the list is full, its last trap is at the spawn point of this tick and its
\* head is not the first trap of the session.
C25_Witness ==
    /\ Len(state.obstacles) = OBSTACLE_CAP
    /\ state.obstacles[OBSTACLE_CAP].x = state.player.worldX + spawnDistance
    /\ state.obstacles[1].x > spawnDistance + GAP_MIN

\* The obstacles of t that a step from s added to the list (obstacles are
\* told apart by their x).
Spawned(s, t) ==
    { j \in 1..Len(t.obstacles) :
        \A i \in 1..Len(s.obstacles) : s.obstacles[i].x # t.obstacles[j].x }

\* C26: a tick adds at most one obstacle to the list, at the end, with
\* x = player.worldX + spawnDistance for the worldX of that tick and
\* collided false; and after every step any two consecutive obstacles of the
\* list are more than GAP_MIN (600 px) apart.
C26_SpawnPlacement ==
    [][/\ Tick
           => /\ Cardinality(Spawned(state, state')) <= 1
              /\ \A j \in Spawned(state, state') :
                   /\ j = Len(state'.obstacles)
                   /\ state'.obstacles[j].x
                        = state'.player.worldX + spawnDistance
                   /\ ~state'.obstacles[j].collided
       /\ \A i \in 1..(Len(state'.obstacles) - 1) :
            state'.obstacles[i + 1].x - state'.obstacles[i].x > GAP_MIN]_vars

\* The tick just taken spawned a second trap, later than the first tick in
\* which the minimum gap was met.
C26_Witness ==
    /\ Len(state.obstacles) = 2
    /\ state.obstacles[2].x = state.player.worldX + spawnDistance
    /\ ~state.obstacles[2].collided
    /\ state.obstacles[2].x - state.obstacles[1].x
         > GAP_MIN + INITIAL_GAME_SPEED + SPEED_INCREMENT

\* C27: within a run (every step but resetGame, which starts one) gameSpeed
\* goes up by SPEED_INCREMENT (0.5) in a tick whose frameCount at its start is
\* a multiple of DIFFICULTY_PERIOD (600) and is left as it is by every other
\* tick and by every other step; so it never goes down.
C27_SpeedStepsOnPeriod ==
    [][sessions' = sessions
         => /\ IF Tick /\ state.frameCount % DIFFICULTY_PERIOD = 0
               THEN state'.gameSpeed = state.gameSpeed + SPEED_INCREMENT
               ELSE state'.gameSpeed = state.gameSpeed
            /\ state'.gameSpeed >= state.gameSpeed]_vars

\* The run is past tick 600: the speed has been raised at frameCount 0 and at
\* frameCount 600, and ticks have been taken since.
C27_Witness ==
    /\ state.isRunning
    /\ state.frameCount > DIFFICULTY_PERIOD + 1
    /\ state.gameSpeed = INITIAL_GAME_SPEED + 2 * SPEED_INCREMENT

\* C28: a tick leaves the player's bottom edge y + h on or above the ground
\* line (y grows downwards).  If gravity and the move of that tick took the
\* bottom edge to the ground line or past it, the player is on the line with
\* vy = 0 and grounded true; otherwise the player is where the move took
\* them, with the velocity gravity gave and grounded false.
C28_GroundClamp ==
    [][Tick =>
         LET vy1 == state.player.vy + GRAVITY
             y1  == state.player.y + vy1
         IN  /\ state'.player.y + state'.player.h <= GroundY
             /\ IF y1 + state.player.h >= GroundY
                THEN /\ state'.player.y + state'.player.h = GroundY
                     /\ state'.player.vy = 0
                     /\ state'.player.grounded
                ELSE /\ state'.player.y = y1
                     /\ state'.player.vy = vy1
                     /\ ~state'.player.grounded]_vars

\* A tick has left the player in the air, falling, so close to the ground
\* that the next tick takes the bottom edge past the line.
C28_Witness ==
    /\ state.isRunning
    /\ ~state.player.grounded
    /\ state.player.vy > 0
    /\ state.player.y + state.player.h < GroundY
    /\ state.player.y + state.player.h + state.player.vy + GRAVITY > GroundY

\* C29: a tick that finds enemy.distance below MAX_ENEMY_DISTANCE raises it by
\* the recovery step (0.5 px), and a tick that finds it at the maximum leaves
\* it there (a tick in which a trap is hit sets it to 0 afterwards, see C14);
\* after every step enemy.distance is at most MAX_ENEMY_DISTANCE.
C29_EnemyRecovery ==
    [][/\ (Tick /\ (Triggered(state') => Triggered(state)))
           => IF state.enemy.distance < MAX_ENEMY_DISTANCE
              THEN state'.enemy.distance
                     = state.enemy.distance + (ENEMY_RECOVERY_RATE \div 2)
              ELSE state'.enemy.distance = state.enemy.distance
       /\ state'.enemy.distance <= MAX_ENEMY_DISTANCE]_vars

\* The enemy has drifted back from resetGame's 300 px to the maximum, and
\* ticks were taken with the distance at the maximum.
C29_Witness ==
    /\ state.isRunning
    /\ state.enemy.distance = MAX_ENEMY_DISTANCE
    /\ state.frameCount
         > (MAX_ENEMY_DISTANCE - RESET_ENEMY_DISTANCE)
             \div (ENEMY_RECOVERY_RATE \div 2)

\* C30: a tick pushes the integer score (the React score becomes
\* Math.floor(state.score), and renderedScore with it) exactly when that
\* floor is greater than the value pushed last, and otherwise leaves both;
\* after every tick renderedScore is the floor of the accumulator.  Within a
\* session no other step changes the pushed score, so the values pushed are
\* strictly increasing.
C30_ScorePushedOnIncrease ==
    [][/\ Tick
           => /\ state'.renderedScore = ScoreFloor(state'.score)
              /\ IF ScoreFloor(state'.score) > state.renderedScore
                 THEN score' = ScoreFloor(state'.score)
                 ELSE /\ score' = score
                      /\ state'.renderedScore = state.renderedScore
       /\ (sessions' = sessions /\ score' # score)
           => /\ Tick
              /\ score' > score
              /\ score' = state'.renderedScore]_vars

\* Fifty ticks into a run the score 4 is the last one pushed (the fiftieth
\* addition of 0.1 leaves the accumulator just below 5).
C30_Witness ==
    /\ state.isRunning
    /\ state.frameCount = 50
    /\ state.renderedScore = 4
    /\ score = 4

\* C31: as long as no trap of the list is triggered, enemy.distance lies
\* between resetGame's 300 px and MAX_ENEMY_DISTANCE; so the danger flag and
\* the capture condition hold only with a triggered trap in the list, and so
\* does GAME_OVER.
C31_DistanceInBand ==
    /\ ~Triggered(state)
         => /\ state.enemy.distance >= RESET_ENEMY_DISTANCE
            /\ state.enemy.distance <= MAX_ENEMY_DISTANCE
    /\ isDanger(state) => Triggered(state)
    /\ state.enemy.distance <= ENEMY_CATCH_DISTANCE => Triggered(state)
    /\ gameState = "GAME_OVER" => Triggered(state)
    /\ ~state.isRunning /\ state.frameCount > 0 => Triggered(state)

\* A run is in progress with a trap jumped over and none triggered; the
\* enemy has drifted back from 300 px to the maximum meanwhile.
C31_Witness ==
    /\ state.isRunning
    /\ gameState = "PLAYING"
    /\ Len(state.obstacles) > 0
    /\ ~Triggered(state)
    /\ state.obstacles[1].x + state.obstacles[1].w < state.player.worldX
    /\ state.enemy.distance > RESET_ENEMY_DISTANCE
    /\ ~isDanger(state)

\* C32: in every state at most one loop callback is queued in the
\* animation-frame scheduler, and one is queued only while the run goes on
\* or after the tick that ended it (the START screen has none).
C32_OneCallbackPending ==
    /\ rafPending <= 1
    /\ rafPending = 1 => (state.isRunning \/ gameState = "GAME_OVER")

\* A second session is running after a start, a game over and a restart, each
\* with its re-run of the game effect, and one callback is queued.
C32_Witness ==
    /\ sessions = 2
    /\ rendered = "PLAYING"
    /\ state.isRunning
    /\ state.frameCount > 0
    /\ rafPending = 1

\* The stored balance text parses to a number.
Parsable(item) == Truthy(item) /\ parseInt(item[1]) # NaN

\* C33: the effects of the mount, run on a stored text that parses to b, write
\* the text of 0 and, unless b is 0, queue b for the re-render; the re-render
\* makes b the balance and its save effect stores the text of b.  Once the
\* mount is through, after every step the stored item is the text of the
\* balance and parses to the balance.
C33_MountKeepsStoredBalance ==
    [][/\ (mount.pc = "rendered" /\ mount'.pc # "rendered"
             /\ Parsable(storage.gameBalance))
           => LET b == parseInt(storage.gameBalance[1]) IN
              /\ storage'.gameBalance = <<toString(0)>>
              /\ IF b = 0 THEN mount' = MountReady /\ balance' = b
                 ELSE mount' = [ pc |-> "effects", queued |-> <<b>> ]
       /\ (mount.pc = "effects" /\ mount'.pc # "effects")
           => /\ mount' = MountReady
              /\ balance' = mount.queued[1]
       /\ mount'.pc = "ready"
           => /\ storage'.gameBalance = <<toString(balance')>>
              /\ parseInt(storage'.gameBalance[1]) = balance']_vars

\* The mount loaded the stored 988, and a session played since was settled
\* into it: the balance and the stored text are both 999.
C33_Witness ==
    /\ mount.pc = "ready"
    /\ pointsAdded
    /\ balance = 999
    /\ storage.gameBalance = << <<"9", "9", "9">> >>

C35_GroundedPlayerCollides ==
    \A i \in 1..Len(state.obstacles) :
        (/\ state.player.grounded
         /\ state.obstacles[i].x + state.obstacles[i].w < state.player.worldX)
          => state.obstacles[i].collided

\* C36: in every state whose gameState is the one rendered (no update of it
\* is waiting for its render), isRunning is true exactly when gameState is
\* PLAYING.
C36_RunningIffPlaying ==
    rendered = gameState => (state.isRunning <=> gameState = "PLAYING")

\* A second session has ended and its GAME_OVER render is committed: the
\* flag has gone false, true, false, true, false with the screens.
C36_Witness ==
    /\ sessions = 2
    /\ rendered = "GAME_OVER"
    /\ gameState = "GAME_OVER"
    /\ ~state.isRunning
    /\ rafPending = 0

\* C37 as stated: in every state the score is 0.1 times frameCount; equal
\* numbers have equal integer parts, so Math.floor of the score is
\* Math.floor of 0.1 * frameCount.
C37_ScoreIsTenthOfFrames ==
    ScoreFloor(state.score) = TenthsFloor(state.frameCount)

\* C37, amended: after every step the score is the sum of as many additions
\* of 0.1 as frameCount counts; a step that changes either is resetGame, which
\* sets both to 0, or an executed tick (the one that ends the run included),
\* which adds 0.1 to the score once and 1 to frameCount.
C37_OneAdditionPerTick ==
    [][/\ state'.score = state'.frameCount
       /\ (state'.score # state.score \/ state'.frameCount # state.frameCount)
           => \/ /\ sessions' # sessions
                 /\ state'.score = 0
                 /\ state'.frameCount = 0
              \/ /\ state.isRunning
                 /\ rafPending > 0
                 /\ state'.score = state.score + 1
                 /\ state'.frameCount = state.frameCount + 1]_vars

\* A run has ended in its 120th tick: the terminal tick was counted and added
\* its 0.1, and the sum of the 120 additions is just below 12.
C37_Witness ==
    /\ ~state.isRunning
    /\ gameState = "GAME_OVER"
    /\ state.frameCount = 120
    /\ state.score = 120
    /\ ScoreFloor(state.score) = 11

====
